---- MODULE Spec2Model ----
(***************************************************************************)
(* Content-addressed tag cache (TagCacheService / TagCacheModel) and the   *)
(* batch tagging pipeline (BatchFileTagger.batch_tag_files).               *)
(*                                                                         *)
(* Optional[x] values are sequences of length <= 1: <<>> is Python's None  *)
(* and <<x>> is a present value.  A 64-bit SimHash is the set of its bit   *)
(* positions that are 1, so that XOR is the symmetric difference and       *)
(* bit_count is the cardinality.                                           *)
(***************************************************************************)
EXTENDS Integers, Sequences, FiniteSets, TLC

\* ------------------------------------------------------------------ bounds
\* The longest batch, the number of batch_tag_files calls, and the number of
\* paths that all the calls together name.
MaxBatch == 3
MaxRuns == 2
MaxPaths == 3

\* ------------------------------------------------------------- primitives
None == <<>>
Some(x) == <<x>>

Range(s) == {s[i] : i \in 1..Len(s)}

\* Python truthiness of an Optional[str]: None and "" are falsy.
StrTruthy(o) == o # None /\ o[1] # ""

\* --------------------------------------------------------- the workspace
\* The files a batch can name.  a.txt and a2.txt normalise to the same
\* identity text, b.txt and c.txt are near duplicates of a.txt, p.png is an
\* image (which may turn out unreadable) and z.zip has an unsupported
\* extension.
Paths == {"a.txt", "a2.txt", "b.txt", "c.txt", "p.png", "z.zip"}

FileExt(path) ==
    CASE path = "p.png" -> "image"
      [] path = "z.zip" -> "other"
      [] OTHER -> "text"

IdentityText(path) ==
    CASE path = "a.txt" -> "T1"
      [] path = "a2.txt" -> "T1"
      [] path = "b.txt" -> "T2"
      [] path = "c.txt" -> "T3"
      [] OTHER -> "T5"

Texts == {"T1", "T2", "T3", "T5"}

\* FileContentModel as built by the loader: the identity text, and the
\* longer text sent to the tagging oracle (for an image: the content, which
\* is empty until a description is filled in).
FileContentModel(path, ftype) ==
    [file_path |-> path,
     file_type |-> ftype,
     content |-> IF ftype = "image" THEN "" ELSE "content of " \o path,
     normalized_text_for_id |-> IdentityText(path),
     normalized_text_for_tagging |->
         IF ftype = "image" THEN "" ELSE "sections of " \o path]

\* FileLoader.load_file: exc is "none", "ValueError" (unsupported type) or
\* "Exception" (_read_image_file could not read the file: readable is FALSE).
load_file(path, readable) ==
    CASE FileExt(path) = "other" ->
            [exc |-> "ValueError", fcm |-> None]
      [] FileExt(path) = "image" /\ ~readable ->
            [exc |-> "Exception", fcm |-> None]
      [] OTHER ->
            [exc |-> "none", fcm |-> Some(FileContentModel(path, FileExt(path)))]

\* ------------------------------------------------------------ fingerprints
\* blake2b digest of the identity text: distinct texts, distinct digests.
_text_hash(text) ==
    CASE text = "T1" -> "9f1c"
      [] text = "T2" -> "03be"
      [] text = "T3" -> "e47a"
      [] text = "T8" -> "c8d0"
      [] text = "T9" -> "77a9"
      [] OTHER -> "5d20"

\* SimHash of the identity text (the set of 1 bits among positions 1..64).
\* Distances: T1-T2 3, T1-T3 4, T2-T3 1, T5 far from all of them; T8 is
\* at the threshold from T1 (8), T9 just beyond it (9).
_simhash64(text) ==
    CASE text = "T1" -> {}
      [] text = "T2" -> {1, 2, 3}
      [] text = "T3" -> {1, 2, 3, 4}
      [] text = "T8" -> 11..18
      [] text = "T9" -> 11..19
      [] OTHER -> 1..40

\* x = sh ^ rec.simhash64; d = x.bit_count()
Hamming(a, b) == Cardinality((a \ b) \cup (b \ a))

simhash_hamming_threshold == 8
InitialBestDist == 65

\* ----------------------------------------------------------------- records
TagRecord(cid, sh, tags, desc, ts) ==
    [content_id |-> cid, simhash64 |-> sh, tags |-> tags,
     file_description |-> desc, ts |-> ts]

\* TagCacheModel: the dict (cache, a function on its keys) and the insertion
\* order of the keys, which is the order the dict is iterated and dumped in.
EmptyCache == [k \in {} |-> None]
EmptyModel == [cache |-> EmptyCache, order |-> <<>>]

\* model_dump_json / model_validate_json: the document holds, per key in
\* order, the five fields of the record.
DumpRecord(rec) ==
    [content_id |-> rec.content_id, simhash64 |-> rec.simhash64,
     tags |-> rec.tags, file_description |-> rec.file_description,
     ts |-> rec.ts]

model_dump_json(m) ==
    [i \in 1..Len(m.order) |->
        [key |-> m.order[i], value |-> DumpRecord(m.cache[m.order[i]])]]

ValidateRecord(v) ==
    TagRecord(v.content_id, v.simhash64, v.tags, v.file_description, v.ts)

model_validate_json(doc) ==
    IF doc = <<>> THEN EmptyModel ELSE
    [cache |-> [k \in {doc[i].key : i \in 1..Len(doc)} |->
                   ValidateRecord((CHOOSE e \in Range(doc) : e.key = k).value)],
     order |-> [i \in 1..Len(doc) |-> doc[i].key]]

\* ------------------------------------------------------- TagCacheService
\* The service state threaded through a handler: the model (cache, order),
\* obj (for each key, the index of the sample whose cache_record IS the stored
\* object, 0 when the stored object is held by no sample), the samples, the
\* clock read by datetime.now(), and the handler's `updated` counter.

\* get_by_id: None, or a model_copy() of the stored record.
get_by_id(st, content_id) ==
    IF content_id \in DOMAIN st.cache
    THEN Some(st.cache[content_id])
    ELSE None

\* The loop of _find_by_simhash from position i on: best is a position of
\* st.order (0 for None); the scan stops at the first distance 0.
RECURSIVE FindLoop(_, _, _, _, _)
FindLoop(st, sh, i, best, best_dist) ==
    IF i > Len(st.order) THEN [best |-> best, best_dist |-> best_dist]
    ELSE LET rec == st.cache[st.order[i]] IN
         IF rec.simhash64 = None
         THEN FindLoop(st, sh, i + 1, best, best_dist)
         ELSE LET d == Hamming(sh, rec.simhash64[1]) IN
              IF d < best_dist
              THEN IF d = 0
                   THEN [best |-> i, best_dist |-> d]
                   ELSE FindLoop(st, sh, i + 1, i, d)
              ELSE FindLoop(st, sh, i + 1, best, best_dist)

\* Mutant: the first record within the threshold, not the nearest one.
_find_by_simhash_FirstWithin(st, sh, max_hamming) ==
    LET within == {i \in 1..Len(st.order) :
                      /\ st.cache[st.order[i]].simhash64 # None
                      /\ Hamming(sh, st.cache[st.order[i]].simhash64[1])
                             <= max_hamming}
    IN  IF within = {} THEN None
        ELSE Some(st.cache[st.order[CHOOSE i \in within :
                                       \A j \in within : i <= j]])

\* Mutant: the threshold is exclusive.
_find_by_simhash_Strict(st, sh, max_hamming) ==
    LET r == FindLoop(st, sh, 1, 0, InitialBestDist) IN
    IF r.best # 0 /\ r.best_dist < max_hamming
    THEN Some(st.cache[st.order[r.best]])
    ELSE None

\* _find_by_simhash: the stored record to reuse, or None.
_find_by_simhash(st, sh, max_hamming) ==
    LET r == FindLoop(st, sh, 1, 0, InitialBestDist) IN
    IF r.best # 0 /\ r.best_dist <= max_hamming
    THEN Some(st.cache[st.order[r.best]])
    ELSE None

\* Mutant: no exact lookup, every call creates an empty record for the text.
get_or_init_record_NoExactHit(st, normalized, use_approx) ==
    LET cid == _text_hash(normalized)
        record == TagRecord(cid, Some(_simhash64(normalized)), <<>>, None, st.clock)
    IN  [st EXCEPT !.cache = cid :> record @@ st.cache,
                   !.order = Append(st.order, cid),
                   !.obj = cid :> 0 @@ st.obj,
                   !.ret = record,
                   !.fresh = TRUE]

\* Mutant: a miss that reuses a near record also refreshes that record's
\* timestamp.
get_or_init_record_TouchesCandidate(st, normalized, use_approx) ==
    LET cid == _text_hash(normalized)
        hit == get_by_id(st, cid)
    IN  IF hit # None
        THEN [st EXCEPT !.ret = hit[1], !.fresh = FALSE]
        ELSE LET sh == _simhash64(normalized)
                 approx == IF use_approx
                           THEN _find_by_simhash(st, sh, simhash_hamming_threshold)
                           ELSE None
                 tags == IF approx # None THEN approx[1].tags ELSE <<>>
                 file_description ==
                     IF approx # None THEN approx[1].file_description ELSE None
                 record == TagRecord(cid, Some(sh), tags, file_description, st.clock)
                 touched == IF approx = None THEN st.cache
                            ELSE [st.cache EXCEPT ![approx[1].content_id].ts = st.clock]
             IN  [st EXCEPT !.cache = cid :> record @@ touched,
                            !.order = Append(st.order, cid),
                            !.obj = cid :> 0 @@ st.obj,
                            !.ret = record,
                            !.fresh = TRUE]

\* get_or_init_record: the state after the call, with `ret` the record
\* returned and `fresh` telling whether it is the stored object itself (a
\* record created on a miss) or a copy (a hit).
get_or_init_record(st, normalized, use_approx) ==
    LET cid == _text_hash(normalized)
        hit == get_by_id(st, cid)
    IN  IF hit # None
        THEN [st EXCEPT !.ret = hit[1], !.fresh = FALSE]
        ELSE LET sh == _simhash64(normalized)
                 approx == IF use_approx
                           THEN _find_by_simhash(st, sh, simhash_hamming_threshold)
                           ELSE None
                 tags == IF approx # None THEN approx[1].tags ELSE <<>>
                 file_description ==
                     IF approx # None THEN approx[1].file_description ELSE None
                 record == TagRecord(cid, Some(sh), tags, file_description, st.clock)
             IN  [st EXCEPT !.cache = cid :> record @@ st.cache,
                            !.order = Append(st.order, cid),
                            !.obj = cid :> 0 @@ st.obj,
                            !.ret = record,
                            !.fresh = TRUE]

\* Mutant: the record a sample holds is always the stored object (get_by_id
\* returned no copy), an assignment shows in the store at once.
WriteObj_Aliased(st, i, rec) ==
    [st EXCEPT !.samples[i].cache_record = rec,
               !.cache = [k \in DOMAIN st.cache |->
                             IF st.obj[k] = i \/ k = rec.content_id
                             THEN rec ELSE st.cache[k]]]

\* Assigning a record object held by sample i: the sample sees the new
\* value, and so does every key whose stored object is that same object.
WriteObj(st, i, rec) ==
    [st EXCEPT !.samples[i].cache_record = rec,
               !.cache = [k \in DOMAIN st.cache |->
                             IF st.obj[k] = i THEN rec ELSE st.cache[k]]]

\* Mutant: storing a record evicts every other entry.
StoreObj_Only(st, i) ==
    LET rec == st.samples[i].cache_record
        cid == rec.content_id
    IN  [st EXCEPT !.cache = cid :> rec,
                   !.obj = cid :> i,
                   !.order = <<cid>>]

\* Mutant: the record is stored under the first key of the map.
StoreObj_UnderFirstKey(st, i) ==
    LET rec == st.samples[i].cache_record
        cid == IF st.order = <<>> THEN rec.content_id ELSE st.order[1]
    IN  [st EXCEPT !.cache = cid :> rec @@ st.cache,
                   !.obj = cid :> i @@ st.obj,
                   !.order = IF cid \in DOMAIN st.cache
                             THEN st.order ELSE Append(st.order, cid)]

\* cache_model.cache[record.content_id] = record, for the record of sample i.
StoreObj(st, i) ==
    LET rec == st.samples[i].cache_record
        cid == rec.content_id
    IN  [st EXCEPT !.cache = cid :> rec @@ st.cache,
                   !.obj = cid :> i @@ st.obj,
                   !.order = IF cid \in DOMAIN st.cache
                             THEN st.order ELSE Append(st.order, cid)]

\* Mutant: the tags of a record made by approximate reuse are the list of
\* its candidate, updated in place; every near record sees the new tags.
update_tags_SharedList(st, i, tags) ==
    LET s1 == WriteObj(st, i, [st.samples[i].cache_record EXCEPT !.tags = tags])
        s2 == WriteObj(s1, i, [s1.samples[i].cache_record EXCEPT !.ts = s1.clock])
        s3 == StoreObj(s2, i)
        rec == s3.samples[i].cache_record
        Near(k) == /\ s3.cache[k].simhash64 # None
                   /\ rec.simhash64 # None
                   /\ Hamming(rec.simhash64[1], s3.cache[k].simhash64[1])
                          <= simhash_hamming_threshold
    IN  [s3 EXCEPT !.cache = [k \in DOMAIN s3.cache |->
                                 IF Near(k) THEN [s3.cache[k] EXCEPT !.tags = tags]
                                 ELSE s3.cache[k]]]

\* Mutant: the record is changed but not written back to the map.
update_tags_NoStore(st, i, tags) ==
    LET s1 == WriteObj(st, i, [st.samples[i].cache_record EXCEPT !.tags = tags])
    IN  WriteObj(s1, i, [s1.samples[i].cache_record EXCEPT !.ts = s1.clock])

\* Mutant: the entry is rebuilt from the content id and the tags, without
\* the fingerprint.
update_tags_DropsFingerprint(st, i, tags) ==
    LET s1 == WriteObj(st, i, [st.samples[i].cache_record
                                  EXCEPT !.tags = tags, !.simhash64 = None])
        s2 == WriteObj(s1, i, [s1.samples[i].cache_record EXCEPT !.ts = s1.clock])
    IN  StoreObj(s2, i)

\* update_tags(record, tags) on the record of sample i.
update_tags(st, i, tags) ==
    LET s1 == WriteObj(st, i, [st.samples[i].cache_record EXCEPT !.tags = tags])
        s2 == WriteObj(s1, i, [s1.samples[i].cache_record EXCEPT !.ts = s1.clock])
    IN  StoreObj(s2, i)

\* update_file_description(record, file_description) on the record of sample i.
update_file_description(st, i, file_description) ==
    LET s1 == WriteObj(st, i, [st.samples[i].cache_record
                                  EXCEPT !.file_description = Some(file_description)])
        s2 == WriteObj(s1, i, [s1.samples[i].cache_record EXCEPT !.ts = s1.clock])
    IN  StoreObj(s2, i)

\* --------------------------------------------------------- _assemble_results
FileTaggingResult(sample) ==
    [file_path |-> sample.file_content_model.file_path,
     tags |-> sample.cache_record.tags]

\* Mutant: the tagged samples first, then the untagged ones.
_assemble_results_TaggedFirst(ss) ==
    LET all == [i \in 1..Len(ss) |-> FileTaggingResult(ss[i])]
        Tagged(r) == r.tags # <<>>
        Untagged(r) == r.tags = <<>>
    IN  SelectSeq(all, Tagged) \o SelectSeq(all, Untagged)

\* Mutant: only the samples that have tags are returned.
_assemble_results_TaggedOnly(ss) ==
    LET all == [i \in 1..Len(ss) |-> FileTaggingResult(ss[i])]
        Tagged(r) == r.tags # <<>>
    IN  SelectSeq(all, Tagged)

_assemble_results(ss) == [i \in 1..Len(ss) |-> FileTaggingResult(ss[i])]

\* ------------------------------------------------------------- the oracles
\* What the tagging oracle can answer for one request: None, or a
\* TagListModel (whose tags may be empty).
TagLists == {<<>>, <<"x">>, <<"y">>}
TagResponses == {None} \cup {Some([tags |-> t]) : t \in TagLists}

\* What the image describer can answer for one request: None, or a message.
Descriptions == {"d1"}
ImageResponses == {None} \cup {Some([content |-> d]) : d \in Descriptions}

\* ------------------------------------------------------------------- state
VARIABLES
    disk,                   \* the cache file: absent, a whole document (doc),
                            \* or truncated (empty or a part of a document)
    cache_model,            \* TagCacheService.cache_model: [cache, order]
    obj,                    \* key -> index of the sample holding the stored object
    pc,                     \* where the tagger is
    ret_pc,                 \* where save() returns to
    save_text,              \* the document save() is writing
    file_paths,             \* the argument of batch_tag_files
    idx,                    \* position of the load loop in file_paths
    samples,                \* the PreparedFileSample list
    uncached,               \* indices (in samples) of the samples without tags
    image_samples_no_desc,  \* indices (in samples) of the images to describe
    image_responses,        \* answers of the describer, parallel to the requests
    image_pending,          \* requests of the describer not answered yet
    tag_responses,          \* answers of the tagging oracle, parallel to uncached
    tag_pending,            \* requests of the tagging oracle not answered yet
    results,                \* what batch_tag_files returned
    clock,                  \* datetime.now(): time passes between two calls
    runs,                   \* batch_tag_files calls so far
    named,                  \* paths named by the calls so far
    tagging_llm,            \* self.tagging_llm is not None
    image_llm,              \* self.image_llm is not None
    exc,                    \* the exception that left the call, "none" if none
    log                     \* what the run did: calls made, flushes, errors

vars == <<disk, cache_model, obj, pc, ret_pc, save_text, file_paths, idx,
          samples, uncached, image_samples_no_desc, image_responses,
          image_pending, tag_responses, tag_pending, results, clock, runs,
          named, tagging_llm, image_llm, exc, log>>

\* The run's record: the requests sent to each oracle (one sequence per
\* batched call), the flush() calls, the save errors caught, the files whose
\* load failed, and the file content at the last save's start.
EmptyLog ==
    [tag_calls |-> <<>>, image_calls |-> <<>>, flushes |-> 0,
     save_errors |-> 0, load_failed |-> {}, crash_pc |-> "none",
     save_prev |-> [kind |-> "absent", doc |-> <<>>]]

AbsentFile == [kind |-> "absent", doc |-> <<>>]

\* The handler's view of the service and the samples.
St ==
    [samples |-> samples, cache |-> cache_model.cache,
     order |-> cache_model.order, obj |-> obj, clock |-> clock,
     updated |-> 0, ret |-> None, fresh |-> FALSE]

NoCall ==
    /\ file_paths = <<>> /\ idx = 1 /\ samples = <<>> /\ uncached = <<>>
    /\ image_samples_no_desc = <<>> /\ image_responses = <<>>
    /\ image_pending = {} /\ tag_responses = <<>> /\ tag_pending = {}
    /\ results = <<>>

Init ==
    /\ disk = AbsentFile
    /\ cache_model = EmptyModel
    /\ obj = EmptyCache
    /\ pc = "none"
    /\ ret_pc = "none"
    /\ save_text = <<>>
    /\ NoCall
    /\ clock = 0
    /\ runs = 0
    /\ named = 0
    /\ tagging_llm = FALSE
    /\ image_llm = FALSE
    /\ exc = "none"
    /\ log = EmptyLog

NoCall_ ==
    /\ file_paths' = <<>> /\ idx' = 1 /\ samples' = <<>> /\ uncached' = <<>>
    /\ image_samples_no_desc' = <<>> /\ image_responses' = <<>>
    /\ image_pending' = {} /\ tag_responses' = <<>> /\ tag_pending' = {}
    /\ results' = <<>>

CallLocals == <<file_paths, idx, samples, uncached, image_samples_no_desc,
                image_responses, image_pending, tag_responses, tag_pending>>

CallVars == <<CallLocals, results>>

\* save() returns to ret_pc; when that is the end of batch_tag_files, the
\* call returns _assemble_results(samples).
SaveReturns ==
    /\ pc' = ret_pc
    /\ ret_pc' = "none"
    /\ results' = IF ret_pc = "done" THEN _assemble_results(samples) ELSE results

\* ------------------------------------------------ TagCacheService.__init__
\* BatchFileTagger() builds a TagCacheService, which reads the cache file if
\* it exists (a file that does not parse makes the constructor raise) and
\* otherwise starts empty and saves.
Construct ==
    /\ pc \in {"none", "done", "raised"}
    /\ NoCall_
    /\ tagging_llm' = FALSE
    /\ image_llm' = FALSE
    /\ log' = EmptyLog
    /\ save_text' = <<>>
    /\ UNCHANGED <<disk, clock, runs, named>>
    /\ \/ /\ disk.kind = "doc"
          /\ cache_model' = model_validate_json(disk.doc)
          /\ pc' = "idle" /\ ret_pc' = "none" /\ exc' = "none"
       \/ /\ disk.kind = "truncated"
          /\ cache_model' = EmptyModel
          /\ pc' = "raised" /\ ret_pc' = "none" /\ exc' = "ValidationError"
       \/ /\ disk.kind = "absent"
          /\ cache_model' = EmptyModel
          /\ pc' = "save" /\ ret_pc' = "idle" /\ exc' = "none"
    /\ obj' = [k \in DOMAIN cache_model'.cache |-> 0]

\* ------------------------------------------------------ TagCacheModel.save
\* write_text(model_dump_json(...)): the document is built, then the file is
\* opened for writing (which truncates it), written and closed.  Any
\* exception is caught and logged.
SaveOpen ==
    /\ pc = "save"
    /\ save_text' = model_dump_json(cache_model)
    /\ disk' = [kind |-> "truncated", doc |-> <<>>]
    /\ log' = [log EXCEPT !.save_prev = disk]
    /\ pc' = "save_write"
    /\ UNCHANGED <<cache_model, obj, ret_pc, CallVars, clock, runs, named,
                   tagging_llm, image_llm, exc>>

SaveWriteEnd ==
    /\ pc = "save_write"
    /\ disk' = [kind |-> "doc", doc |-> save_text]
    /\ SaveReturns
    /\ UNCHANGED <<cache_model, obj, save_text, CallLocals, clock, runs, named,
                   tagging_llm, image_llm, exc, log>>

\* Mutant: the handler of a failed write resets the model.
SaveFails_ClearsCache ==
    /\ pc \in {"save", "save_write"}
    /\ log' = [log EXCEPT !.save_errors = @ + 1,
                          !.save_prev = IF pc = "save" THEN disk ELSE @]
    /\ SaveReturns
    /\ cache_model' = EmptyModel
    /\ obj' = EmptyCache
    /\ UNCHANGED <<disk, save_text, CallLocals, clock, runs, named,
                   tagging_llm, image_llm, exc>>

\* The write fails (the open, or a write after it): except Exception logs.
SaveFails ==
    /\ pc \in {"save", "save_write"}
    /\ log' = [log EXCEPT !.save_errors = @ + 1,
                          !.save_prev = IF pc = "save" THEN disk ELSE @]
    /\ SaveReturns
    /\ UNCHANGED <<disk, cache_model, obj, save_text, CallLocals, clock, runs, named,
                   tagging_llm, image_llm, exc>>

\* The process dies during save(): the memory is gone, the file is what it is.
Crash ==
    /\ pc \in {"save", "save_write"}
    /\ pc' = "none"
    /\ ret_pc' = "none"
    /\ cache_model' = EmptyModel
    /\ obj' = EmptyCache
    /\ NoCall_
    /\ tagging_llm' = FALSE
    /\ image_llm' = FALSE
    /\ exc' = "crash"
    /\ log' = [log EXCEPT !.crash_pc = pc,
                          !.save_prev = IF pc = "save" THEN disk
                                        ELSE log.save_prev]
    /\ UNCHANGED <<disk, save_text, clock, runs, named>>

\* ------------------------------------------------- BatchFileTagger: entry
\* The batches: lists of distinct paths of the workspace, as a directory
\* listing gives them.
Batches ==
    {fp \in UNION {[1..n -> Paths] : n \in 0..MaxBatch} :
        \A i, j \in DOMAIN fp : fp[i] = fp[j] => i = j}

\* batch_tag_files(file_paths) is called.
StartBatch ==
    /\ pc \in {"idle", "done"}
    /\ runs < MaxRuns
    /\ \E fp \in Batches :
          /\ named + Len(fp) <= MaxPaths
          /\ file_paths' = fp
          /\ named' = named + Len(fp)
          /\ pc' = IF fp = <<>> THEN "prepare" ELSE "load"
    /\ idx' = 1
    /\ samples' = <<>>
    /\ uncached' = <<>>
    /\ image_samples_no_desc' = <<>>
    /\ image_responses' = <<>> /\ image_pending' = {}
    /\ tag_responses' = <<>> /\ tag_pending' = {}
    /\ results' = <<>>
    /\ obj' = [k \in DOMAIN cache_model.cache |-> 0]
    /\ runs' = runs + 1
    /\ clock' = clock + 1
    /\ exc' = "none"
    /\ log' = EmptyLog
    /\ UNCHANGED <<disk, cache_model, ret_pc, save_text, tagging_llm,
                   image_llm>>

\* ------------------------------------------------ _load_and_prepare_samples
\* Mutant: no try/except around load_file, the exception leaves the call.
LoadSkip_Propagates ==
    /\ pc = "load"
    /\ \E readable \in BOOLEAN :
          /\ load_file(file_paths[idx], readable).exc # "none"
          /\ exc' = load_file(file_paths[idx], readable).exc
    /\ pc' = "raised"
    /\ NoCall_
    /\ UNCHANGED <<disk, cache_model, obj, ret_pc, save_text, clock, runs,
                   named, tagging_llm, image_llm, log>>

\* One iteration of the loop whose load_file raises: the path is skipped.
LoadSkip ==
    /\ pc = "load"
    /\ \E readable \in BOOLEAN : load_file(file_paths[idx], readable).exc # "none"
    /\ log' = [log EXCEPT !.load_failed = @ \cup {file_paths[idx]}]
    /\ idx' = idx + 1
    /\ pc' = IF idx = Len(file_paths) THEN "prepare" ELSE "load"
    /\ UNCHANGED <<disk, cache_model, obj, ret_pc, save_text, file_paths,
                   samples, uncached, image_samples_no_desc, image_responses,
                   image_pending, tag_responses, tag_pending, results, clock,
                   runs, named, tagging_llm, image_llm, exc>>

\* The state after get_or_init_record for a loaded file, the new sample
\* appended.
PrepareSample(st, fcm) ==
    LET s1 == get_or_init_record(st, fcm.normalized_text_for_id, TRUE)
        i == Len(st.samples) + 1
        sample == [file_content_model |-> fcm, cache_record |-> s1.ret]
    IN  [s1 EXCEPT !.samples = Append(st.samples, sample),
                   !.obj = IF s1.fresh
                           THEN s1.ret.content_id :> i @@ s1.obj
                           ELSE s1.obj]

\* One iteration of the loop whose load_file returns: the cache is queried
\* and the sample appended.
LoadOne ==
    /\ pc = "load"
    /\ load_file(file_paths[idx], TRUE).exc = "none"
    /\ LET s1 == PrepareSample(St, load_file(file_paths[idx], TRUE).fcm[1]) IN
          /\ samples' = s1.samples
          /\ cache_model' = [cache |-> s1.cache, order |-> s1.order]
          /\ obj' = s1.obj
          /\ clock' = s1.clock
    /\ idx' = idx + 1
    /\ pc' = IF idx = Len(file_paths) THEN "prepare" ELSE "load"
    /\ UNCHANGED <<disk, ret_pc, save_text, file_paths, uncached,
                   image_samples_no_desc, image_responses, image_pending,
                   tag_responses, tag_pending, results, runs, named, tagging_llm,
                   image_llm, exc, log>>

\* --------------------------------------- batch_tag_files, lines 46 to 66
Indices(s) == [i \in 1..Len(s) |-> i]

\* Mutant: every sample is taken as uncached.
Uncached_All(ss) == Indices(ss)

\* uncached = [s for s in samples if not s.cache_record.tags]
Uncached(ss) ==
    LET NoTags(i) == ss[i].cache_record.tags = <<>>
    IN  SelectSeq(Indices(ss), NoTags)

\* The images among the uncached samples that have no cached description.
ImagesNoDesc(ss) ==
    LET T(i) == /\ ss[i].file_content_model.file_type = "image"
                /\ ~StrTruthy(ss[i].cache_record.file_description)
    IN  SelectSeq(Uncached(ss), T)

\* Mutant: a cached description is not copied to the sample.
UseCachedDescriptions_Skipped(ss) == ss

\* The uncached images that have a cached description take it as their
\* content and as their text for tagging.
UseCachedDescriptions(ss) ==
    [i \in 1..Len(ss) |->
        IF /\ ss[i].cache_record.tags = <<>>
           /\ ss[i].file_content_model.file_type = "image"
           /\ StrTruthy(ss[i].cache_record.file_description)
        THEN [ss[i] EXCEPT
                 !.file_content_model.content =
                     ss[i].cache_record.file_description[1],
                 !.file_content_model.normalized_text_for_tagging =
                     ss[i].cache_record.file_description[1]]
        ELSE ss[i]]

Prepare ==
    /\ pc = "prepare"
    /\ uncached' = Uncached(samples)
    /\ image_samples_no_desc' = ImagesNoDesc(samples)
    /\ samples' = UseCachedDescriptions(samples)
    /\ pc' = IF Uncached(samples) = <<>> THEN "done"
             ELSE IF ImagesNoDesc(samples) # <<>> THEN "images"
             ELSE "tags"
    /\ results' = IF Uncached(samples) = <<>>
                  THEN _assemble_results(samples) ELSE results
    /\ UNCHANGED <<disk, cache_model, obj, ret_pc, save_text, file_paths, idx,
                   image_responses, image_pending, tag_responses, tag_pending,
                   clock, runs, named, tagging_llm, image_llm, exc, log>>

\* `if updated: self.cache.flush()` at the end of each write-back loop.
\* Mutant: the cache is flushed whether or not a record was updated.
NeedsFlush_Always(updated) == TRUE

NeedsFlush(updated) == updated > 0

\* ---------------------------------------------------- _process_images_batch
\* ImageLLM() cannot be built (no vision model configured): the call raises.
\* An exception that leaves batch_tag_files takes the call's locals with it.
ImageLLMInitFails ==
    /\ pc = "images"
    /\ ~image_llm
    /\ pc' = "raised"
    /\ NoCall_
    /\ exc' = "ConfigurationError"
    /\ UNCHANGED <<disk, cache_model, obj, ret_pc, save_text, clock,
                   runs, named, tagging_llm, image_llm, log>>

\* The requests are built and model.batch is called.
ImagesSend ==
    /\ pc = "images"
    /\ image_llm' = TRUE
    /\ image_responses' = [k \in 1..Len(image_samples_no_desc) |-> None]
    /\ image_pending' = 1..Len(image_samples_no_desc)
    /\ log' = [log EXCEPT !.image_calls =
                  Append(@, [k \in 1..Len(image_samples_no_desc) |->
                      samples[image_samples_no_desc[k]].file_content_model.file_path])]
    /\ pc' = "images_wait"
    /\ UNCHANGED <<disk, cache_model, obj, ret_pc, save_text, file_paths, idx,
                   samples, uncached, image_samples_no_desc, tag_responses,
                   tag_pending, results, clock, runs, named, tagging_llm, exc>>

\* One sub-request of the batch completes, in any order.
ImageSubResponse ==
    /\ pc = "images_wait"
    /\ \E k \in image_pending, r \in ImageResponses :
          /\ image_responses' = [image_responses EXCEPT ![k] = r]
          /\ image_pending' = image_pending \ {k}
    /\ UNCHANGED <<disk, cache_model, obj, pc, ret_pc, save_text, file_paths,
                   idx, samples, uncached, image_samples_no_desc,
                   tag_responses, tag_pending, results, clock, runs, named,
                   tagging_llm, image_llm, exc, log>>

\* A sub-request raises: model.batch raises, and nothing catches it.
ImagesBatchRaises ==
    /\ pc = "images_wait"
    /\ image_pending # {}
    /\ pc' = "raised"
    /\ NoCall_
    /\ exc' = "OracleError"
    /\ UNCHANGED <<disk, cache_model, obj, ret_pc, save_text, clock,
                   runs, named, tagging_llm, image_llm, log>>

\* The loop over zip(image_samples, image_responses), from position k on.
RECURSIVE ImagesLoop(_, _, _, _)
ImagesLoop(st, targets, responses, k) ==
    IF k > Len(targets) THEN st
    ELSE IF responses[k] = None THEN ImagesLoop(st, targets, responses, k + 1)
    ELSE LET i == targets[k]
             content == responses[k][1].content
             s1 == [st EXCEPT
                       !.samples[i].file_content_model.content = content,
                       !.samples[i].file_content_model.normalized_text_for_tagging =
                           content]
             s2 == WriteObj(s1, i, [s1.samples[i].cache_record
                                       EXCEPT !.file_description = Some(content)])
             s3 == update_file_description(s2, i, content)
         IN  ImagesLoop([s3 EXCEPT !.updated = s3.updated + 1],
                        targets, responses, k + 1)

\* model.batch has returned: the descriptions are written to the samples
\* and to the cache, and the cache is flushed if any was.
ImagesWriteBack ==
    /\ pc = "images_wait"
    /\ image_pending = {}
    /\ LET s1 == ImagesLoop(St, image_samples_no_desc, image_responses, 1) IN
          /\ samples' = s1.samples
          /\ cache_model' = [cache |-> s1.cache, order |-> s1.order]
          /\ obj' = s1.obj
          /\ clock' = s1.clock
          /\ IF NeedsFlush(s1.updated)
             THEN /\ pc' = "save" /\ ret_pc' = "tags"
                  /\ log' = [log EXCEPT !.flushes = @ + 1]
             ELSE /\ pc' = "tags" /\ ret_pc' = ret_pc
                  /\ log' = log
    /\ UNCHANGED <<disk, save_text, file_paths, idx, uncached,
                   image_samples_no_desc, image_responses, image_pending,
                   tag_responses, tag_pending, results, runs, named, tagging_llm,
                   image_llm, exc>>

\* ------------------------------------------------------ _process_tags_batch
\* TaggingLLM() cannot be built (no model configured): the call raises.
TaggingLLMInitFails ==
    /\ pc = "tags"
    /\ ~tagging_llm
    /\ pc' = "raised"
    /\ NoCall_
    /\ exc' = "ConfigurationError"
    /\ UNCHANGED <<disk, cache_model, obj, ret_pc, save_text, clock,
                   runs, named, tagging_llm, image_llm, log>>

\* The requests are built, one per uncached sample, and model.batch is called.
TagsSend ==
    /\ pc = "tags"
    /\ tagging_llm' = TRUE
    /\ tag_responses' = [k \in 1..Len(uncached) |-> None]
    /\ tag_pending' = 1..Len(uncached)
    /\ log' = [log EXCEPT !.tag_calls =
                  Append(@, [k \in 1..Len(uncached) |->
                      [file_path |-> samples[uncached[k]].file_content_model.file_path,
                       text |-> samples[uncached[k]].file_content_model
                                    .normalized_text_for_tagging]])]
    /\ pc' = "tags_wait"
    /\ UNCHANGED <<disk, cache_model, obj, ret_pc, save_text, file_paths, idx,
                   samples, uncached, image_samples_no_desc, image_responses,
                   image_pending, results, clock, runs, named, image_llm, exc>>

\* One sub-request of the batch completes, in any order.
TagSubResponse ==
    /\ pc = "tags_wait"
    /\ \E k \in tag_pending, r \in TagResponses :
          /\ tag_responses' = [tag_responses EXCEPT ![k] = r]
          /\ tag_pending' = tag_pending \ {k}
    /\ UNCHANGED <<disk, cache_model, obj, pc, ret_pc, save_text, file_paths,
                   idx, samples, uncached, image_samples_no_desc,
                   image_responses, image_pending, results, clock, runs, named,
                   tagging_llm, image_llm, exc, log>>

\* A sub-request raises: model.batch raises, and nothing catches it.
TagsBatchRaises ==
    /\ pc = "tags_wait"
    /\ tag_pending # {}
    /\ pc' = "raised"
    /\ NoCall_
    /\ exc' = "OracleError"
    /\ UNCHANGED <<disk, cache_model, obj, ret_pc, save_text, clock,
                   runs, named, tagging_llm, image_llm, log>>

\* The loop over zip(uncached_samples, tag_responses), from position k on.
RECURSIVE TagsLoop(_, _, _, _)
TagsLoop(st, targets, responses, k) ==
    IF k > Len(targets) THEN st
    ELSE IF responses[k] = None THEN TagsLoop(st, targets, responses, k + 1)
    ELSE LET i == targets[k]
             tags == responses[k][1].tags
             s1 == WriteObj(st, i, [st.samples[i].cache_record
                                       EXCEPT !.tags = tags])
             s2 == update_tags(s1, i, tags)
         IN  TagsLoop([s2 EXCEPT !.updated = s2.updated + 1],
                      targets, responses, k + 1)

\* model.batch has returned: the tags are written to the samples and to the
\* cache, and the cache is flushed if any was.
TagsWriteBack ==
    /\ pc = "tags_wait"
    /\ tag_pending = {}
    /\ LET s1 == TagsLoop(St, uncached, tag_responses, 1) IN
          /\ samples' = s1.samples
          /\ cache_model' = [cache |-> s1.cache, order |-> s1.order]
          /\ obj' = s1.obj
          /\ clock' = s1.clock
          /\ IF NeedsFlush(s1.updated)
             THEN /\ pc' = "save" /\ ret_pc' = "done"
                  /\ log' = [log EXCEPT !.flushes = @ + 1]
                  /\ results' = results
             ELSE /\ pc' = "done" /\ ret_pc' = ret_pc
                  /\ log' = log
                  /\ results' = _assemble_results(s1.samples)
    /\ UNCHANGED <<disk, save_text, file_paths, idx, uncached,
                   image_samples_no_desc, image_responses, image_pending,
                   tag_responses, tag_pending, runs, named, tagging_llm,
                   image_llm, exc>>

\* ------------------------------------------------------------ specification
Next ==
    \/ Construct
    \/ SaveOpen
    \/ SaveWriteEnd
    \/ SaveFails
    \/ Crash
    \/ StartBatch
    \/ LoadSkip
    \/ LoadOne
    \/ Prepare
    \/ ImageLLMInitFails
    \/ ImagesSend
    \/ ImageSubResponse
    \/ ImagesBatchRaises
    \/ ImagesWriteBack
    \/ TaggingLLMInitFails
    \/ TagsSend
    \/ TagSubResponse
    \/ TagsBatchRaises
    \/ TagsWriteBack

Spec == Init /\ [][Next]_vars

\* ========================================== TagCacheService, called directly
\* A client of the service's public interface (as batch_index_builder is,
\* with use_approx = False): it looks records up, holds the records it was
\* given (samples), assigns their fields and calls the update methods, on a
\* store loaded from a cache file.  Time passes with every call.
MaxHeld == 2
MaxClock == 4

ServiceTexts == {"T1", "T8", "T9"}

\* The records a loaded cache file can hold for a text: tagged or not,
\* described or not, and with or without a fingerprint (simhash64 is
\* optional in the file).
LoadedRecords(text) ==
    {TagRecord(_text_hash(text), sh, td[1], td[2], 0) :
        sh \in {None, Some(_simhash64(text))},
        td \in {<<<<>>, None>>, <<<<"x">>, None>>, <<<<"x">>, Some("d1")>>}}

\* The stores a cache file of at most two entries loads to.
LoadedStores ==
    {EmptyModel}
    \cup {[cache |-> r.content_id :> r, order |-> <<r.content_id>>] :
             r \in UNION {LoadedRecords(t) : t \in ServiceTexts}}
    \cup {[cache |-> (r1.content_id :> r1) @@ (r2.content_id :> r2),
           order |-> <<r1.content_id, r2.content_id>>] :
             r1 \in LoadedRecords("T1"),
             r2 \in LoadedRecords("T8") \cup LoadedRecords("T9")}

\* The last call of the client.
ServiceCall(op, i, text, use_approx, tags, description) ==
    [op |-> op, i |-> i, text |-> text, use_approx |-> use_approx,
     tags |-> tags, description |-> description]

InitService ==
    /\ cache_model \in LoadedStores
    /\ disk = [kind |-> "doc", doc |-> model_dump_json(cache_model)]
    /\ obj = [k \in DOMAIN cache_model.cache |-> 0]
    /\ pc = "service"
    /\ ret_pc = "none"
    /\ save_text = <<>>
    /\ NoCall
    /\ clock = 0
    /\ runs = 0
    /\ named = 0
    /\ tagging_llm = FALSE
    /\ image_llm = FALSE
    /\ exc = "none"
    /\ log = ServiceCall("none", 0, "", FALSE, <<>>, "")

\* The service state at the time of a call.
Now == [St EXCEPT !.clock = clock + 1]

\* The call is made: its effect on the store and on the records held.
ServiceCommit(s1, call) ==
    /\ pc = "service"
    /\ clock < MaxClock
    /\ samples' = s1.samples
    /\ cache_model' = [cache |-> s1.cache, order |-> s1.order]
    /\ obj' = s1.obj
    /\ clock' = clock + 1
    /\ log' = call
    /\ UNCHANGED <<disk, pc, ret_pc, save_text, file_paths, idx, uncached,
                   image_samples_no_desc, image_responses, image_pending,
                   tag_responses, tag_pending, results, runs, named,
                   tagging_llm, image_llm, exc>>

\* record = service.get_or_init_record(text, use_approx)
ServiceGetOrInit ==
    /\ Len(samples) < MaxHeld
    /\ \E text \in ServiceTexts, use_approx \in BOOLEAN :
          LET s1 == get_or_init_record(Now, text, use_approx)
              i == Len(samples) + 1
              s2 == [s1 EXCEPT
                        !.samples = Append(s1.samples, [cache_record |-> s1.ret]),
                        !.obj = IF s1.fresh
                                THEN s1.ret.content_id :> i @@ s1.obj
                                ELSE s1.obj]
          IN  ServiceCommit(s2, ServiceCall("get_or_init_record", i, text,
                                            use_approx, <<>>, ""))

\* record = service.get_by_id(content_id)
ServiceGetById ==
    /\ Len(samples) < MaxHeld
    /\ \E text \in ServiceTexts :
          LET hit == get_by_id(Now, _text_hash(text))
              i == Len(samples) + 1
          IN  IF hit = None
              THEN ServiceCommit(Now, ServiceCall("get_by_id", 0, text,
                                                  FALSE, <<>>, ""))
              ELSE ServiceCommit(
                       [Now EXCEPT !.samples =
                           Append(samples, [cache_record |-> hit[1]])],
                       ServiceCall("get_by_id", i, text, FALSE, <<>>, ""))

\* record.tags = tags, by the holder of a record.
ServiceAssign ==
    \E i \in 1..Len(samples), tags \in TagLists :
        ServiceCommit(
            WriteObj(Now, i, [samples[i].cache_record EXCEPT !.tags = tags]),
            ServiceCall("assign", i, "", FALSE, tags, ""))

\* service.update_tags(record, tags)
ServiceUpdateTags ==
    \E i \in 1..Len(samples), tags \in TagLists :
        ServiceCommit(update_tags(Now, i, tags),
                      ServiceCall("update_tags", i, "", FALSE, tags, ""))

\* service.update_file_description(record, description)
ServiceUpdateDescription ==
    \E i \in 1..Len(samples), d \in Descriptions :
        ServiceCommit(update_file_description(Now, i, d),
                      ServiceCall("update_file_description", i, "", FALSE,
                                  <<>>, d))

NextService ==
    \/ ServiceGetOrInit
    \/ ServiceGetById
    \/ ServiceAssign
    \/ ServiceUpdateTags
    \/ ServiceUpdateDescription

SpecService == InitService /\ [][NextService]_vars

\* ================================================ the identity text of a file
\* TextProcessor.split_for_tag_cache and the validator of FileContentModel, on
\* texts written out character by character: a text is a sequence of
\* one-character strings.
MaxSegments == 3

max_total_chars == 1500

\* The raw contents: up to MaxSegments runs of a letter, a blank or a line
\* break, each one character long or half the budget long.
RunChars == {"a", " ", "\n"}
RunLengths == {1, max_total_chars \div 2}

Repeat(c, n) == [i \in 1..n |-> c]

RECURSIVE RawOf(_)
RawOf(rs) ==
    IF rs = <<>> THEN <<>>
    ELSE Repeat(rs[1][1], rs[1][2]) \o RawOf(Tail(rs))

RawContents ==
    {RawOf(rs) : rs \in UNION {[1..n -> RunChars \X RunLengths] :
                                   n \in 0..MaxSegments}}

\* \s of the regular expression, on the characters of the model.
IsSpace(c) == c \in {" ", "\n"}

\* normalize(text, squeeze_ws=True, strip=True): every run of whitespace
\* becomes one blank, then leading and trailing blanks are removed.
normalize(text) ==
    LET n == Len(text)
        Ink(i) == ~IsSpace(text[i])
    IN  IF \A i \in 1..n : ~Ink(i) THEN <<>>
        ELSE LET first == CHOOSE i \in 1..n :
                              Ink(i) /\ \A j \in 1..(i - 1) : ~Ink(j)
                 last == CHOOSE i \in 1..n :
                              Ink(i) /\ \A j \in (i + 1)..n : ~Ink(j)
                 Keep(i) == /\ first <= i /\ i <= last
                            /\ Ink(i) \/ Ink(i - 1)
                 kept == SelectSeq([i \in 1..n |-> i], Keep)
             IN  [k \in 1..Len(kept) |->
                    IF Ink(kept[k]) THEN text[kept[k]] ELSE " "]

\* CharacterTextSplitter(chunk_size, chunk_overlap=0).split_text, with the
\* splitter's default separator, a blank line.  The text is cut at the
\* separators and nowhere else; empty pieces are dropped.
FirstSeparator(text) ==
    LET At(i) == text[i] = "\n" /\ text[i + 1] = "\n"
        n == Len(text)
    IN  IF \E i \in 1..(n - 1) : At(i)
        THEN CHOOSE i \in 1..(n - 1) : At(i) /\ \A j \in 1..(i - 1) : ~At(j)
        ELSE 0

RECURSIVE SplitOnSeparator(_)
SplitOnSeparator(text) ==
    LET i == FirstSeparator(text)
    IN  IF i = 0 THEN IF text = <<>> THEN <<>> ELSE <<text>>
        ELSE (IF i = 1 THEN <<>> ELSE <<SubSeq(text, 1, i - 1)>>)
                 \o SplitOnSeparator(SubSeq(text, i + 2, Len(text)))

\* The pieces are joined again, with the separator, as long as the chunk
\* stays within chunk_size.  A single piece longer than chunk_size is not
\* cut: it becomes a chunk of its own, whatever its length.
RECURSIVE MergeSplits(_, _, _, _)
MergeSplits(pieces, k, current, chunk_size) ==
    IF k > Len(pieces)
    THEN IF current = <<>> THEN <<>> ELSE <<current>>
    ELSE LET d == pieces[k] IN
         IF current # <<>> /\ Len(current) + 2 + Len(d) > chunk_size
         THEN <<current>> \o MergeSplits(pieces, k + 1, d, chunk_size)
         ELSE MergeSplits(pieces, k + 1,
                          IF current = <<>> THEN d
                          ELSE current \o <<"\n", "\n">> \o d,
                          chunk_size)

split_text(text, chunk_size) ==
    MergeSplits(SplitOnSeparator(text), 1, <<>>, chunk_size)

\* text[a:b] of Python, for 0 <= a <= b.
Slice(text, a, b) == SubSeq(text, a + 1, IF b > Len(text) THEN Len(text) ELSE b)

\* split_for_tag_cache(text): the three sections of the identity text.
split_for_tag_cache(text) ==
    LET normalized_text == normalize(text)
        n == Len(normalized_text)
    IN  IF n <= max_total_chars
        THEN LET third == n \div 3 IN
             [front |-> Slice(normalized_text, 0, third),
              middle |-> Slice(normalized_text, third, 2 * third),
              back |-> Slice(normalized_text, 2 * third, n)]
        ELSE LET chunk_size == max_total_chars \div 3
                 chunks == split_text(normalized_text, chunk_size)
                 total == Len(chunks)
             IN  [front |-> IF total > 0 THEN chunks[1] ELSE <<>>,
                  middle |-> IF total > 1 THEN chunks[(total \div 2) + 1]
                             ELSE <<>>,
                  back |-> IF total >= 1 THEN chunks[total] ELSE <<>>]

\* The data a loader passes to FileContentModel(...): a text file with its
\* content, or an image with its base64 data URL.  normalized_text is not
\* set yet.
ContentData ==
    {[file_path |-> "a.txt", file_type |-> "text", content |-> raw,
      image_base64 |-> None, normalized_text |-> None] : raw \in RawContents}
    \cup
    {[file_path |-> "p.png", file_type |-> "image", content |-> <<>>,
      image_base64 |-> Some(raw), normalized_text |-> None] :
         raw \in RawContents \ {<<>>}}

\* set_normalized_fields, the part that computes normalized_text.
set_normalized_fields(data) ==
    IF data.normalized_text # None THEN data
    ELSE LET sections ==
                 IF data.file_type = "text"
                 THEN split_for_tag_cache(data.content)
                 ELSE split_for_tag_cache(data.image_base64[1])
         IN  [data EXCEPT !.normalized_text =
                 Some(sections.front \o sections.middle \o sections.back)]

\* A FileContentModel is about to be built from some data.
InitIdentity ==
    /\ disk = AbsentFile
    /\ cache_model = EmptyModel
    /\ obj = EmptyCache
    /\ pc = "validate"
    /\ ret_pc = "none"
    /\ save_text = <<>>
    /\ file_paths = <<>> /\ idx = 1 /\ uncached = <<>>
    /\ image_samples_no_desc = <<>> /\ image_responses = <<>>
    /\ image_pending = {} /\ tag_responses = <<>> /\ tag_pending = {}
    /\ results = <<>>
    /\ \E data \in ContentData : samples = <<[file_content_model |-> data]>>
    /\ clock = 0
    /\ runs = 0
    /\ named = 0
    /\ tagging_llm = FALSE
    /\ image_llm = FALSE
    /\ exc = "none"
    /\ log = EmptyLog

\* The validator runs before the model is built.
Validate ==
    /\ pc = "validate"
    /\ samples' = [samples EXCEPT ![1].file_content_model =
                       set_normalized_fields(@)]
    /\ pc' = "validated"
    /\ UNCHANGED <<disk, cache_model, obj, ret_pc, save_text, file_paths, idx,
                   uncached, image_samples_no_desc, image_responses,
                   image_pending, tag_responses, tag_pending, results, clock,
                   runs, named, tagging_llm, image_llm, exc, log>>

NextIdentity == Validate

SpecIdentity == InitIdentity /\ [][NextIdentity]_vars

\* ===================================== two taggers on one cache file
\* Two BatchFileTagger instances (classify_get_tags builds one per call),
\* each with its own TagCacheService loaded from the same cache file, each
\* running one batch_tag_files call.  The variables of a tagger are indexed
\* by the instance; disk and clock are shared.  What a tagger does between
\* two accesses of the file touches its own memory only, so a run is taken
\* in three steps: up to the tagging request, the write-back, the save.
MaxOverlapBatch == 2

Instances == {1, 2}

\* The batches of the two runs: text files, at most MaxOverlapBatch each.
OverlapBatches ==
    {fp \in UNION {[1..n -> {"a.txt", "b.txt", "c.txt"}] :
                       n \in 1..MaxOverlapBatch} :
        \A i, j \in DOMAIN fp : fp[i] = fp[j] => i = j}

\* The cache file the two services were loaded from: empty, or holding the
\* tagged record of a.txt's text.
InitialFiles ==
    {model_dump_json(EmptyModel),
     model_dump_json([cache |-> _text_hash("T1") :>
                         TagRecord(_text_hash("T1"), Some(_simhash64("T1")),
                                   <<"x">>, None, 0),
                      order |-> <<_text_hash("T1")>>])}

\* Instance i's view of its service and samples, at time now.
StOf(i, now) ==
    [samples |-> samples[i], cache |-> cache_model[i].cache,
     order |-> cache_model[i].order, obj |-> obj[i], clock |-> now,
     updated |-> 0, ret |-> None, fresh |-> FALSE]

\* _load_and_prepare_samples over fp, from position k on.
RECURSIVE LoadAll(_, _, _)
LoadAll(st, fp, k) ==
    IF k > Len(fp) THEN st
    ELSE LET r == load_file(fp[k], TRUE) IN
         IF r.exc # "none" THEN LoadAll(st, fp, k + 1)
         ELSE LoadAll(PrepareSample(st, r.fcm[1]), fp, k + 1)

InitOverlap ==
    /\ \E doc \in InitialFiles :
          /\ disk = [kind |-> "doc", doc |-> doc]
          /\ cache_model = [i \in Instances |-> model_validate_json(doc)]
          /\ obj = [i \in Instances |->
                       [k \in DOMAIN model_validate_json(doc).cache |-> 0]]
    /\ pc = [i \in Instances |-> "idle"]
    /\ ret_pc = "none"
    /\ save_text = <<>>
    /\ file_paths = [i \in Instances |-> <<>>]
    /\ idx = 1
    /\ samples = [i \in Instances |-> <<>>]
    /\ uncached = [i \in Instances |-> <<>>]
    /\ image_samples_no_desc = <<>> /\ image_responses = <<>>
    /\ image_pending = {}
    /\ tag_responses = [i \in Instances |-> <<>>]
    /\ tag_pending = {}
    /\ results = [i \in Instances |-> <<>>]
    /\ clock = 0
    /\ runs = [i \in Instances |-> 0]
    /\ named = 0
    /\ tagging_llm = [i \in Instances |-> FALSE]
    /\ image_llm = FALSE
    /\ exc = "none"
    /\ log = [i \in Instances |-> EmptyLog]

\* batch_tag_files(fp) on instance i, up to the call of the tagging oracle
\* (or to the return, when no sample is without tags).
OverlapStart(i) ==
    /\ pc[i] = "idle"
    /\ \E fp \in OverlapBatches :
          LET s1 == LoadAll(StOf(i, clock + 1), fp, 1)
              un == Uncached(s1.samples)
          IN  /\ file_paths' = [file_paths EXCEPT ![i] = fp]
              /\ samples' = [samples EXCEPT ![i] = UseCachedDescriptions(s1.samples)]
              /\ cache_model' = [cache_model EXCEPT
                                    ![i] = [cache |-> s1.cache, order |-> s1.order]]
              /\ obj' = [obj EXCEPT ![i] = s1.obj]
              /\ uncached' = [uncached EXCEPT ![i] = un]
              /\ IF un = <<>>
                 THEN /\ pc' = [pc EXCEPT ![i] = "done"]
                      /\ results' = [results EXCEPT
                                        ![i] = _assemble_results(s1.samples)]
                      /\ UNCHANGED <<tagging_llm, log>>
                 ELSE /\ pc' = [pc EXCEPT ![i] = "tags_wait"]
                      /\ tagging_llm' = [tagging_llm EXCEPT ![i] = TRUE]
                      /\ log' = [log EXCEPT ![i].tag_calls =
                                    Append(@, [k \in 1..Len(un) |->
                                        [file_path |-> s1.samples[un[k]]
                                                          .file_content_model.file_path,
                                         text |-> s1.samples[un[k]].file_content_model
                                                      .normalized_text_for_tagging]])]
                      /\ UNCHANGED results
    /\ clock' = clock + 1
    /\ runs' = [runs EXCEPT ![i] = clock + 1]
    /\ UNCHANGED <<disk, ret_pc, save_text, idx, image_samples_no_desc,
                   image_responses, image_pending, tag_responses, tag_pending,
                   named, image_llm, exc>>

\* model.batch returns on instance i: the write-back loop, then the flush
\* if a record was updated.
OverlapWriteBack(i) ==
    /\ pc[i] = "tags_wait"
    /\ \E responses \in [1..Len(uncached[i]) -> TagResponses] :
          LET s1 == TagsLoop(StOf(i, runs[i]), uncached[i], responses, 1) IN
              /\ tag_responses' = [tag_responses EXCEPT ![i] = responses]
              /\ samples' = [samples EXCEPT ![i] = s1.samples]
              /\ cache_model' = [cache_model EXCEPT
                                    ![i] = [cache |-> s1.cache, order |-> s1.order]]
              /\ obj' = [obj EXCEPT ![i] = s1.obj]
              /\ IF NeedsFlush(s1.updated)
                 THEN /\ pc' = [pc EXCEPT ![i] = "save"]
                      /\ log' = [log EXCEPT ![i].flushes = @ + 1]
                      /\ UNCHANGED results
                 ELSE /\ pc' = [pc EXCEPT ![i] = "done"]
                      /\ results' = [results EXCEPT
                                        ![i] = _assemble_results(s1.samples)]
                      /\ UNCHANGED log
    /\ UNCHANGED <<disk, ret_pc, save_text, file_paths, idx, uncached,
                   image_samples_no_desc, image_responses, image_pending,
                   tag_pending, clock, runs, named, tagging_llm, image_llm, exc>>

\* flush() on instance i: the whole map of the instance replaces the file.
OverlapSave(i) ==
    /\ pc[i] = "save"
    /\ disk' = [kind |-> "doc", doc |-> model_dump_json(cache_model[i])]
    /\ log' = [log EXCEPT ![i].save_prev = disk]
    /\ pc' = [pc EXCEPT ![i] = "done"]
    /\ results' = [results EXCEPT ![i] = _assemble_results(samples[i])]
    /\ UNCHANGED <<cache_model, obj, ret_pc, save_text, file_paths, idx,
                   samples, uncached, image_samples_no_desc, image_responses,
                   image_pending, tag_responses, tag_pending, clock, runs,
                   named, tagging_llm, image_llm, exc>>

NextOverlap ==
    \E i \in Instances :
        \/ OverlapStart(i)
        \/ OverlapWriteBack(i)
        \/ OverlapSave(i)

SpecOverlap == InitOverlap /\ [][NextOverlap]_vars

\* ================================================================== claims
\* The paths of the results, in order.
ResultPaths == [i \in 1..Len(results) |-> results[i].file_path]

\* The paths of the batch whose load succeeded, in input order.
LoadedPaths ==
    LET Loaded(p) == p \notin log.load_failed
    IN  SelectSeq(file_paths, Loaded)

\* The position of a path in the input list.
PosInInput(p) == CHOOSE k \in 1..Len(file_paths) : file_paths[k] = p

\* The paths sent to the tagging oracle, and to the describer, in this call.
TagRequested ==
    UNION {{log.tag_calls[c][k].file_path : k \in 1..Len(log.tag_calls[c])} :
              c \in 1..Len(log.tag_calls)}

ImageRequested ==
    UNION {Range(log.image_calls[c]) : c \in 1..Len(log.image_calls)}

\* C1 (as claimed): when batch_tag_files returns, the results are as many as
\* the input paths, result i is the one of input i, and a path whose load
\* failed has a result with empty tags.
C1_SameLengthAsInput ==
    pc = "done" =>
        /\ Len(results) = Len(file_paths)
        /\ \A i \in 1..Len(file_paths) :
              /\ results[i].file_path = file_paths[i]
              /\ file_paths[i] \in log.load_failed => results[i].tags = <<>>

\* C1 (amended): when batch_tag_files returns, the results are exactly one
\* per input path whose load succeeded, in input order; a path whose load
\* failed has no result.
C1_OneResultPerLoadedItem ==
    pc = "done" =>
        /\ ResultPaths = LoadedPaths
        /\ Len(results) = Len(file_paths) - Cardinality(log.load_failed)
        /\ \A p \in log.load_failed : p \notin Range(ResultPaths)

\* C1 witness: a call returned results for a batch in which a load failed
\* and another item was returned without tags.
C1_Witness ==
    /\ pc = "done"
    /\ log.load_failed # {}
    /\ \E i \in 1..Len(results) : results[i].tags = <<>>

\* C2: when batch_tag_files returns, any two results are in the order their
\* paths have in the input, and every result is for a path of the input.
C2_ResultsInInputOrder ==
    pc = "done" =>
        /\ \A i \in 1..Len(results) : results[i].file_path \in Range(file_paths)
        /\ \A i, j \in 1..Len(results) :
              i < j => PosInInput(results[i].file_path)
                           < PosInInput(results[j].file_path)

\* C2 witness: a call returned a miss that the oracle left untagged before a
\* cache hit (an item that was never sent to the oracle).
C2_Witness ==
    /\ pc = "done"
    /\ \E i, j \in 1..Len(results) :
          /\ i < j
          /\ results[i].tags = <<>>
          /\ results[i].file_path \in TagRequested
          /\ results[j].tags # <<>>
          /\ results[j].file_path \notin TagRequested

\* C3 (as claimed): an exception of the batched oracle call never leaves
\* batch_tag_files.
C3_OracleExceptionCaught == ~(pc = "raised" /\ exc = "OracleError")

\* C4: a load failure never makes batch_tag_files raise, and when the call
\* returns every path whose load succeeded has its result, tagged by the
\* oracle's answer if it was sent to the oracle.
C4_LoadFailureDoesNotAbort ==
    /\ pc = "raised" => exc \notin {"ValueError", "Exception"}
    /\ pc \in {"prepare", "images", "images_wait", "tags", "tags_wait", "done"}
          => [i \in 1..Len(samples) |-> samples[i].file_content_model.file_path]
                 = LoadedPaths
    /\ pc = "done" =>
          /\ \A p \in Range(file_paths) \ log.load_failed :
                \E i \in 1..Len(results) : results[i].file_path = p
          /\ \A k \in 1..Len(uncached) :
                tag_responses[k] # None =>
                    results[uncached[k]].tags = tag_responses[k][1].tags

\* C4 witness: a call in which a load failed returned another item with the
\* tags the oracle gave for it in this call.
C4_Witness ==
    /\ pc = "done"
    /\ log.load_failed # {}
    /\ \E k \in 1..Len(uncached) :
          /\ tag_responses[k] # None
          /\ tag_responses[k][1].tags # <<>>
          /\ results[uncached[k]].tags = tag_responses[k][1].tags

\* C5 (as claimed): when the call returns and the oracle answered None for
\* some item of the miss-set, every item it answered has the answered tags in
\* its result and in the store, and every item it answered None for has
\* empty tags in its result.
C5_NullResponseIsolated ==
    (pc = "done" /\ \E k \in 1..Len(tag_responses) : tag_responses[k] = None) =>
        \A j \in 1..Len(uncached) :
            LET i == uncached[j]
                cid == samples[i].cache_record.content_id
            IN  IF tag_responses[j] = None
                THEN results[i].tags = <<>>
                ELSE /\ results[i].tags = tag_responses[j][1].tags
                     /\ cache_model.cache[cid].tags = tag_responses[j][1].tags

\* C6: while an oracle call is being made, no sample whose record has tags
\* is among the requests of the tagging oracle or of the describer, and some
\* sample has no tags; a call that found no sample without tags made no
\* oracle call at all.
C6_ResolvedItemsSkipOracle ==
    /\ pc \in {"images", "images_wait", "tags", "tags_wait"} =>
          /\ \A i \in 1..Len(samples) :
                samples[i].cache_record.tags # <<>> =>
                    samples[i].file_content_model.file_path
                        \notin TagRequested \cup ImageRequested
          /\ \E i \in 1..Len(samples) : samples[i].cache_record.tags = <<>>
    /\ (pc = "done" /\ uncached = <<>>) =>
          log.tag_calls = <<>> /\ log.image_calls = <<>>

\* C6 witness: the tagging oracle is being called for one sample of a batch
\* whose other sample came from the cache with tags.
C6_Witness ==
    /\ pc = "tags_wait"
    /\ TagRequested # {}
    /\ \E i \in 1..Len(samples) : samples[i].cache_record.tags # <<>>

\* The stored records that have a fingerprint (positions in insertion
\* order), and the one nearest to sh: least distance, earliest on a tie.
Fingerprinted(m) ==
    {i \in 1..Len(m.order) : m.cache[m.order[i]].simhash64 # None}

DistAt(m, i, sh) == Hamming(sh, m.cache[m.order[i]].simhash64[1])

NearestPos(m, sh) ==
    IF Fingerprinted(m) = {} THEN 0
    ELSE CHOOSE i \in Fingerprinted(m) :
            \A j \in Fingerprinted(m) :
                \/ DistAt(m, i, sh) < DistAt(m, j, sh)
                \/ DistAt(m, i, sh) = DistAt(m, j, sh) /\ i <= j

\* A step of the load loop that appended a sample for a text the store
\* did not hold.
LoadedOnMiss ==
    /\ pc = "load"
    /\ Len(samples') = Len(samples) + 1
    /\ samples'[Len(samples')].cache_record.content_id
           \notin DOMAIN cache_model.cache

NewRecord == samples'[Len(samples')].cache_record
NewText == samples'[Len(samples')].file_content_model.normalized_text_for_id

\* C7 (as claimed): when a text missing from the store is looked up, every
\* stored record with tags whose fingerprint is within the threshold of the
\* text's gives its tags to the record returned, whatever else is stored.
C7_ReusesAnyNearRecord ==
    [][LoadedOnMiss =>
          \A k \in DOMAIN cache_model.cache :
              (/\ cache_model.cache[k].tags # <<>>
               /\ cache_model.cache[k].simhash64 # None
               /\ Hamming(_simhash64(NewText), cache_model.cache[k].simhash64[1])
                      <= simhash_hamming_threshold)
                 => NewRecord.tags = cache_model.cache[k].tags]_vars

\* C7 (amended): when a text missing from the store is looked up and the
\* nearest fingerprinted record (least Hamming distance, earliest inserted
\* on a tie) is within the threshold, the record returned carries that
\* record's tags and description; and a sample that carries tags is not
\* among the oracle's requests.
C7_ReusesNearestRecord ==
    /\ [][LoadedOnMiss =>
            LET n == NearestPos(cache_model, _simhash64(NewText)) IN
            (n # 0 /\ DistAt(cache_model, n, _simhash64(NewText))
                          <= simhash_hamming_threshold)
               => /\ NewRecord.tags = cache_model.cache[cache_model.order[n]].tags
                  /\ NewRecord.file_description
                         = cache_model.cache[cache_model.order[n]].file_description
         ]_vars
    /\ [](pc = "tags_wait" =>
            \A i \in 1..Len(samples) :
                samples[i].cache_record.tags # <<>> =>
                    samples[i].file_content_model.file_path \notin TagRequested)

\* C7 witness: the load loop has created a record (the stored object is the
\* sample's own) that carries tags reused from a near record, while the
\* store also holds a record without tags.
C7_Witness ==
    /\ pc \in {"load", "prepare"}
    /\ \E i \in 1..Len(samples) :
          /\ obj[samples[i].cache_record.content_id] = i
          /\ samples[i].cache_record.tags # <<>>
    /\ \E k \in DOMAIN cache_model.cache : cache_model.cache[k].tags = <<>>

\* C8 (as claimed): a call flushes the cache at most once.
C8_AtMostOneFlush == log.flushes <= 1

\* Whether some answer of a batched call was not None.
SomeAnswer(responses) == \E k \in 1..Len(responses) : responses[k] # None

\* C8 (amended): a call flushes at most once after the description stage
\* and at most once after the tagging stage, each time only if that stage
\* updated a record: never more than twice, never once per item.
C8_AtMostOneFlushPerStage ==
    /\ log.flushes <= 2
    /\ log.flushes <= Len(log.image_calls) + Len(log.tag_calls)
    /\ pc = "done" =>
          log.flushes = (IF SomeAnswer(image_responses) THEN 1 ELSE 0)
                          + (IF SomeAnswer(tag_responses) THEN 1 ELSE 0)

\* C8 witness: a call returned after updating three records with one flush.
C8_Witness ==
    /\ pc = "done"
    /\ log.flushes = 1
    /\ Len(tag_responses) = 3
    /\ \A k \in 1..3 : tag_responses[k] # None

\* C9 (as claimed): after a crash during a flush of batch_tag_files the
\* cache file holds the whole previous content or the whole new document.
C9_FlushIsAtomic ==
    (exc = "crash" /\ log.flushes > 0) =>
        \/ disk = log.save_prev
        \/ disk = [kind |-> "doc", doc |-> save_text]

\* C10 (as claimed): when a write of flush has failed during a call, the
\* call has raised.
C10_SaveFailureRaised ==
    (log.flushes > 0 /\ log.save_errors > 0) => pc = "raised"

\* C11: a step in which a write of save() fails leaves the cache map as it
\* was, and when the failure comes after the file was opened the map is
\* still the one the document being written was dumped from.
C11_FailedWriteKeepsMap ==
    [][log'.save_errors > log.save_errors =>
          /\ cache_model' = cache_model
          /\ pc = "save_write" => model_dump_json(cache_model') = save_text
      ]_vars

\* C11 witness: a flush of batch_tag_files has failed while the map held a
\* record with tags.
C11_Witness ==
    /\ log.flushes > 0
    /\ log.save_errors > 0
    /\ \E k \in DOMAIN cache_model.cache : cache_model.cache[k].tags # <<>>

\* C12 (as claimed): when batch_tag_files has returned after flushing, a
\* TagCacheService built from the cache file holds the map that was flushed:
\* the file is a whole document that validates to the map in memory.
C12_ReloadEqualsFlushed ==
    (pc = "done" /\ log.flushes > 0) =>
        /\ disk.kind = "doc"
        /\ model_validate_json(disk.doc) = cache_model

\* A step of the load loop that appended a sample for a text the store
\* already held.
LoadedOnHit ==
    /\ pc = "load"
    /\ Len(samples') = Len(samples) + 1
    /\ samples'[Len(samples')].cache_record.content_id
           \in DOMAIN cache_model.cache

\* A step of an operation on the service (not the construction of a new
\* service from the file, nor the death of the process).
OperationStep ==
    /\ pc \notin {"none", "raised"}
    /\ pc = "done" => runs' # runs
    /\ exc' # "crash"

UpdatedIds(targets, responses) ==
    {samples[targets[j]].cache_record.content_id :
        j \in {j \in 1..Len(targets) : responses[j] # None}}

LastAnswered(targets, responses, j) ==
    /\ responses[j] # None
    /\ \A l \in (j + 1)..Len(targets) :
          responses[l] # None =>
              samples[targets[l]].cache_record.content_id
                  # samples[targets[j]].cache_record.content_id

\* C14: a write-back of tags (update_tags) or of descriptions
\* (update_file_description) leaves every stored record whose content id is
\* not the one updated exactly as it was, the candidates of an approximate
\* reuse included, and gives each updated content id the tags answered for
\* it: two records never share their tags.
C14_ReuseIsIndependent ==
    [][/\ (pc = "tags_wait" /\ pc' \notin {"tags_wait", "raised"}) =>
             /\ \A k \in DOMAIN cache_model.cache
                          \ UpdatedIds(uncached, tag_responses) :
                   cache_model'.cache[k] = cache_model.cache[k]
             /\ \A j \in 1..Len(uncached) :
                   LastAnswered(uncached, tag_responses, j) =>
                       cache_model'.cache[samples[uncached[j]].cache_record.content_id].tags
                           = tag_responses[j][1].tags
       /\ (pc = "images_wait" /\ pc' \notin {"images_wait", "raised"}) =>
             \A k \in DOMAIN cache_model.cache
                      \ UpdatedIds(image_samples_no_desc, image_responses) :
                 cache_model'.cache[k] = cache_model.cache[k]
      ]_vars

\* C14 witness: the store holds two near records, the second created (by
\* approximate reuse) when the first was the only one; the second was tagged
\* by the oracle in this call and the first holds other tags.
C14_Witness ==
    /\ pc = "done"
    /\ Len(cache_model.order) = 2
    /\ LET R1 == cache_model.cache[cache_model.order[1]]
           R2 == cache_model.cache[cache_model.order[2]]
       IN  /\ Hamming(R1.simhash64[1], R2.simhash64[1]) <= simhash_hamming_threshold
           /\ R2.tags # <<>>
           /\ R1.tags # R2.tags
           /\ \E p \in TagRequested : _text_hash(IdentityText(p)) = R2.content_id

\* The client's last call was op and has just been made.
Called(op) == log'.op = op /\ clock' # clock

\* C15: when get_or_init_record misses the exact lookup, the record it
\* creates and stores has the text's content id and fingerprint, and it
\* carries the tags and the description of the nearest fingerprinted record
\* (earliest on a tie) if approximation is enabled and that record is at
\* distance <= 8; in every other case its tags are empty and it has no
\* description.
C15_NearestWithinThreshold ==
    [][(Called("get_or_init_record")
            /\ _text_hash(log'.text) \notin DOMAIN cache_model.cache) =>
          LET cid == _text_hash(log'.text)
              sh == _simhash64(log'.text)
              n == NearestPos(cache_model, sh)
              new == samples'[log'.i].cache_record
          IN  /\ new.content_id = cid
              /\ new.simhash64 = Some(sh)
              /\ cache_model'.cache[cid] = new
              /\ IF /\ log'.use_approx
                    /\ n # 0
                    /\ DistAt(cache_model, n, sh) <= simhash_hamming_threshold
                 THEN /\ new.tags = cache_model.cache[cache_model.order[n]].tags
                      /\ new.file_description
                             = cache_model.cache[cache_model.order[n]].file_description
                 ELSE /\ new.tags = <<>>
                      /\ new.file_description = None
      ]_vars

\* C15 witness: the last call created the record of T8 with the tags and
\* the description of a record at distance exactly 8.
C15_Witness ==
    /\ log.op = "get_or_init_record"
    /\ log.use_approx
    /\ log.text = "T8"
    /\ obj[_text_hash("T8")] = log.i
    /\ samples[log.i].cache_record.tags # <<>>
    /\ samples[log.i].cache_record.file_description # None
    /\ \A k \in DOMAIN cache_model.cache \ {_text_hash("T8")} :
          /\ cache_model.cache[k].simhash64 # None
          /\ Hamming(_simhash64("T8"), cache_model.cache[k].simhash64[1]) = 8

\* C16: get_by_id leaves the map as it was and returns the stored record's
\* fields; assigning the tags of a held record that is a copy (not the
\* stored object) changes the record held and nothing in the map.
C16_GetByIdReturnsCopy ==
    [][/\ Called("get_by_id") =>
             /\ cache_model' = cache_model
             /\ log'.i # 0 =>
                   samples'[log'.i].cache_record
                       = cache_model.cache[_text_hash(log'.text)]
       /\ (Called("assign")
              /\ obj[samples[log'.i].cache_record.content_id] # log'.i) =>
             /\ samples'[log'.i].cache_record.tags = log'.tags
             /\ cache_model' = cache_model
      ]_vars

\* C16 witness: the last call assigned the tags of a copy, which now differ
\* from the stored ones.
C16_Witness ==
    /\ log.op = "assign"
    /\ obj[samples[log.i].cache_record.content_id] # log.i
    /\ samples[log.i].cache_record.tags
           # cache_model.cache[samples[log.i].cache_record.content_id].tags

\* C17: after update_tags(record, tags) the record held and the entry stored
\* under its content id are the same record, with those tags and the time of
\* the call; likewise for update_file_description and the description.
C17_UpdateWritesBoth ==
    [][/\ Called("update_tags") =>
             LET rec == samples'[log'.i].cache_record IN
             /\ rec.tags = log'.tags
             /\ rec.ts = clock'
             /\ rec.content_id = samples[log'.i].cache_record.content_id
             /\ cache_model'.cache[rec.content_id] = rec
       /\ Called("update_file_description") =>
             LET rec == samples'[log'.i].cache_record IN
             /\ rec.file_description = Some(log'.description)
             /\ rec.ts = clock'
             /\ rec.content_id = samples[log'.i].cache_record.content_id
             /\ cache_model'.cache[rec.content_id] = rec
      ]_vars

\* C17 witness: the last call was update_tags with a copy whose tags the
\* holder had not assigned; the stored entry has the new tags and time.
C17_Witness ==
    /\ log.op = "update_tags"
    /\ log.tags # <<>>
    /\ clock = MaxClock
    /\ cache_model.cache[samples[log.i].cache_record.content_id].tags = log.tags
    /\ cache_model.cache[samples[log.i].cache_record.content_id].ts = clock
    /\ \E k \in DOMAIN cache_model.cache : cache_model.cache[k].ts = 0

\* C18: no step of an operation on the service removes a key of the map,
\* nor moves one in the order of the entries.
C18_NoKeyRemoved ==
    [][OperationStep =>
          /\ DOMAIN cache_model.cache \subseteq DOMAIN cache_model'.cache
          /\ Len(cache_model.order) <= Len(cache_model'.order)
          /\ \A i \in 1..Len(cache_model.order) :
                cache_model'.order[i] = cache_model.order[i]
      ]_vars

\* C18 witness: a second run has returned with a record it created next to
\* a record of the first run.
C18_Witness ==
    /\ pc = "done"
    /\ runs = 2
    /\ \E k1, k2 \in DOMAIN cache_model.cache :
          /\ cache_model.cache[k1].ts = 1
          /\ cache_model.cache[k2].ts = 2
          /\ cache_model.cache[k2].tags # <<>>

\* The text a content id was computed from.
TextOf(cid) == CHOOSE t \in Texts \cup ServiceTexts : _text_hash(t) = cid

\* C19: every stored record has the fingerprint of the text of its content
\* id, and over any step (a reload from the file included) a content id
\* that has a stored fingerprint and is still stored has the same one.
C19_SimhashIsStable ==
    /\ [](\A k \in DOMAIN cache_model.cache :
             cache_model.cache[k].simhash64 = Some(_simhash64(TextOf(k))))
    /\ [][\A k \in DOMAIN cache_model.cache \cap DOMAIN cache_model'.cache :
             cache_model.cache[k].simhash64 # None =>
                 cache_model'.cache[k].simhash64 = cache_model.cache[k].simhash64
         ]_vars

\* C19 witness: a record created in the first run was tagged in the second
\* (the record after it in the store is of the first run) and has its
\* fingerprint.
C19_Witness ==
    /\ pc = "done"
    /\ Len(cache_model.order) >= 2
    /\ cache_model.cache[cache_model.order[1]].ts = 2
    /\ cache_model.cache[cache_model.order[2]].ts = 1
    /\ cache_model.cache[cache_model.order[1]].tags # <<>>
    /\ cache_model.cache[cache_model.order[1]].simhash64 # None

\* C20 (as claimed): when batch_tag_files raises because an oracle cannot
\* be built, the call has created or changed no record (none has the time of
\* this call), has called no oracle and has flushed nothing.
C20_FailsFast ==
    (pc = "raised" /\ exc = "ConfigurationError") =>
        /\ \A k \in DOMAIN cache_model.cache : cache_model.cache[k].ts < clock
        /\ log.image_calls = <<>>
        /\ log.flushes = 0

\* ---------------------------------------------------------------- C21
\* The position of sample i in the describer's batch of this call (0: the
\* sample was not sent to the describer).
DescribedAt(i) ==
    IF \E k \in 1..Len(image_samples_no_desc) : image_samples_no_desc[k] = i
    THEN CHOOSE k \in 1..Len(image_samples_no_desc) : image_samples_no_desc[k] = i
    ELSE 0

\* The paths the describer has been called with in this call.
DescriberPaths == UNION {Range(log.image_calls[c]) : c \in 1..Len(log.image_calls)}

C21_CachedCase ==
    /\ pc = "tags_wait"
    /\ log.image_calls = <<>>
    /\ \E k \in 1..Len(uncached) :
          /\ samples[uncached[k]].file_content_model.file_type = "image"
          /\ log.tag_calls[1][k].text = "d1"

\* ---------------------------------------------------------------- C22
\* The identity text of the model that was validated.
IdentityOf(s) == s.file_content_model.normalized_text[1]

\* What the identity text was computed from.
SourceOf(s) ==
    IF s.file_content_model.file_type = "text"
    THEN s.file_content_model.content
    ELSE s.file_content_model.image_base64[1]

\* Claim C22: the identity text of a validated item is a function of its
\* content, and it is never longer than about the budget of 1500
\* characters (read generously: never longer than twice the budget).
C22_IdentityTextBounded ==
    pc = "validated" =>
        \A i \in 1..Len(samples) :
            /\ IdentityOf(samples[i])
                   = set_normalized_fields(
                         [samples[i].file_content_model
                             EXCEPT !.normalized_text = None]).normalized_text[1]
            /\ Len(IdentityOf(samples[i])) <= 2 * max_total_chars

\* A content within the budget after normalisation: its identity text is
\* the normalised content.
C22_ShortIsWhole ==
    pc = "validated" =>
        \A i \in 1..Len(samples) :
            Len(normalize(SourceOf(samples[i]))) <= max_total_chars =>
                IdentityOf(samples[i]) = normalize(SourceOf(samples[i]))

\* A content over the budget after normalisation: its identity text is the
\* normalised content twice.
C22_LongIsDoubled ==
    pc = "validated" =>
        \A i \in 1..Len(samples) :
            LET t == normalize(SourceOf(samples[i])) IN
            Len(t) > max_total_chars => IdentityOf(samples[i]) = t \o t

\* A content of 1501 letters has been validated.
C22_LongValidated ==
    /\ pc = "validated"
    /\ SourceOf(samples[1]) = Repeat("a", max_total_chars + 1)

\* ---------------------------------------------------------------- C23
\* Claim C23: get_or_init_record returns a record of the text's content id.
\* When the content id is in the map the map is left as it was; on a miss
\* the map gains one entry, under the new content id and after the others,
\* and every entry it had (the record reused by approximation included) is
\* unchanged.
C23_GetOrInitFrame ==
    [][Called("get_or_init_record") =>
          LET cid == _text_hash(log'.text)
              ret == samples'[log'.i].cache_record
          IN  /\ log'.i = Len(samples) + 1
              /\ Len(samples') = Len(samples) + 1
              /\ ret.content_id = cid
              /\ IF cid \in DOMAIN cache_model.cache
                 THEN /\ cache_model' = cache_model
                      /\ ret = cache_model.cache[cid]
                 ELSE /\ DOMAIN cache_model'.cache
                            = DOMAIN cache_model.cache \cup {cid}
                      /\ cache_model'.order = Append(cache_model.order, cid)
                      /\ cache_model'.cache[cid] = ret
                      /\ \A k \in DOMAIN cache_model.cache :
                            cache_model'.cache[k] = cache_model.cache[k]
      ]_vars

\* C23 witness: the last call missed for T8 and reused the record of T1,
\* which is loaded from the file (ts 0) and is still as it was loaded.
C23_Witness ==
    /\ log.op = "get_or_init_record"
    /\ log.use_approx
    /\ log.text = "T8"
    /\ cache_model.order[Len(cache_model.order)] = _text_hash("T8")
    /\ obj[_text_hash("T8")] = log.i
    /\ _text_hash("T1") \in DOMAIN cache_model.cache
    /\ cache_model.cache[_text_hash("T1")].ts = 0
    /\ cache_model.cache[_text_hash("T1")].tags = <<"x">>
    /\ samples[log.i].cache_record.tags = <<"x">>

\* ---------------------------------------------------------------- C24
\* The entry stored, before and after the call, under the content id of the
\* record the call was given.
StoredBefore == cache_model.cache[samples[log'.i].cache_record.content_id]
StoredAfter == cache_model'.cache[samples[log'.i].cache_record.content_id]

\* update_tags leaves the stored fingerprint and description as they were.
C24_UpdateTagsKeepsDescription ==
    [][Called("update_tags") =>
          /\ StoredAfter.tags = log'.tags
          /\ StoredAfter.simhash64 = StoredBefore.simhash64
          /\ StoredAfter.file_description = StoredBefore.file_description
      ]_vars

\* update_file_description leaves the stored fingerprint and tags as they
\* were.
C24_UpdateDescriptionKeepsTags ==
    [][Called("update_file_description") =>
          /\ StoredAfter.file_description = Some(log'.description)
          /\ StoredAfter.simhash64 = StoredBefore.simhash64
          /\ StoredAfter.tags = StoredBefore.tags
      ]_vars

\* Claim C24: update_tags changes only the tags and the timestamp of the
\* entry stored under the record's content id, update_file_description only
\* its description and timestamp, whatever record of that content id the
\* caller holds (the stored object, or a copy taken before another holder
\* updated the entry).
C24_UpdateChangesOnlyItsField ==
    /\ C24_UpdateTagsKeepsDescription
    /\ C24_UpdateDescriptionKeepsTags

\* Both halves hold when the caller holds the stored object itself.
C24_HolderOfStoredObject ==
    [][(\/ Called("update_tags")
        \/ Called("update_file_description"))
       /\ obj[samples[log'.i].cache_record.content_id] = log'.i =>
          /\ StoredAfter.simhash64 = StoredBefore.simhash64
          /\ Called("update_tags") =>
                StoredAfter.file_description = StoredBefore.file_description
          /\ Called("update_file_description") =>
                StoredAfter.tags = StoredBefore.tags
      ]_vars

\* ---------------------------------------------------------------- C25
\* The store after the first m iterations of the tags write-back loop.
AfterIterations(m) == TagsLoop(St, SubSeq(uncached, 1, m), tag_responses, 1)

\* No step of an operation takes a stored record from resolved to empty.
C25_StepKeepsResolved ==
    [][OperationStep =>
          \A k \in DOMAIN cache_model.cache :
             cache_model.cache[k].tags # <<>> =>
                cache_model'.cache[k].tags # <<>>]_vars

\* No iteration of the write-back loop empties a record that an earlier
\* iteration of the same loop resolved.
C25_LoopKeepsResolved ==
    [][(pc = "tags_wait" /\ pc' \in {"save", "done"}) =>
          \A m \in 1..Len(uncached) :
             \A k \in DOMAIN AfterIterations(m).cache :
                AfterIterations(m).cache[k].tags # <<>> =>
                   cache_model'.cache[k].tags # <<>>]_vars

\* Claim C25: once the record stored for a content id has tags, no later
\* step of the run (the iterations of the write-back loop included) and no
\* later run leaves it with empty tags.
C25_ResolvedStaysResolved ==
    /\ C25_StepKeepsResolved
    /\ C25_LoopKeepsResolved

\* ---------------------------------------------------------------- C26
\* The map a service built from the cache file would hold.
Persisted == model_validate_json(disk.doc)

\* Every record of the map in memory is in the file, with its tags and its
\* description.
AllPersisted ==
    /\ disk.kind = "doc"
    /\ \A k \in DOMAIN cache_model.cache :
          /\ k \in DOMAIN Persisted.cache
          /\ Persisted.cache[k].tags = cache_model.cache[k].tags
          /\ Persisted.cache[k].file_description
                 = cache_model.cache[k].file_description

\* Claim C26: when batch_tag_files has returned normally, every record of
\* the map in memory (the records this run created included) is in the
\* cache file with the same tags and description.
C26_ReturnedMeansPersisted == pc = "done" => AllPersisted

\* The same, for the returns of a run whose writes all succeeded and that
\* started from a whole file.
C26_PersistedWhenNoWriteFailed ==
    (pc = "done" /\ log.save_errors = 0 /\ disk.kind = "doc") => AllPersisted

\* The same, for the returns of a run that flushed and whose writes all
\* succeeded.
C26_PersistedWhenFlushed ==
    (pc = "done" /\ log.save_errors = 0 /\ log.flushes > 0) => AllPersisted

\* ---------------------------------------------------------------- C27
\* Two samples of the call that have the same identity text.
Duplicates(i, j) ==
    /\ i # j
    /\ samples[i].file_content_model.normalized_text_for_id
           = samples[j].file_content_model.normalized_text_for_id

\* Duplicates have one content id and the map has one entry for it.
C27_DuplicatesShareEntry ==
    \A i, j \in 1..Len(samples) :
        Duplicates(i, j) =>
            /\ samples[i].cache_record.content_id
                   = samples[j].cache_record.content_id
            /\ samples[i].cache_record.content_id \in DOMAIN cache_model.cache
            /\ Cardinality({k \in 1..Len(cache_model.order) :
                               cache_model.order[k]
                                   = samples[i].cache_record.content_id}) = 1

\* Claim C27: two items of one batch with the same identity text share one
\* cache entry, and when the call has returned their results carry the same
\* tags, the tags stored for their content id.
C27_DuplicatesAgree ==
    /\ C27_DuplicatesShareEntry
    /\ (pc = "done" /\ Len(results) = Len(samples)) =>
          \A i, j \in 1..Len(samples) :
              Duplicates(i, j) =>
                  /\ results[i].tags = results[j].tags
                  /\ results[i].tags
                         = cache_model.cache[samples[i].cache_record.content_id].tags

\* ---------------------------------------------------------------- C28
\* Sample i is an image that was sent to the describer in this call and got
\* no description.
DescriptionMissing(i) ==
    /\ samples[i].file_content_model.file_type = "image"
    /\ DescribedAt(i) # 0
    /\ image_pending = {}
    /\ image_responses[DescribedAt(i)] = None

\* Every image in a tagging request is there with a non-empty text.
C28_ImageSentWithText ==
    [][(pc = "tags" /\ pc' = "tags_wait") =>
          \A k \in 1..Len(uncached) :
             samples[uncached[k]].file_content_model.file_type = "image" =>
                log'.tag_calls[Len(log'.tag_calls)][k].text # ""]_vars

\* An image whose description is missing is in no tagging request and its
\* stored record keeps empty tags.
C28_UndescribedNotTagged ==
    [](\A i \in 1..Len(samples) :
          (pc \in {"tags_wait", "save", "save_write", "done"}
              /\ DescriptionMissing(i)) =>
             /\ \A c \in 1..Len(log.tag_calls) :
                   \A k \in 1..Len(log.tag_calls[c]) :
                      log.tag_calls[c][k].file_path
                          # samples[i].file_content_model.file_path
             /\ cache_model.cache[samples[i].cache_record.content_id].tags = <<>>)

\* Claim C28: an image is submitted to the tagging oracle only with a
\* description as its text; an image without a cached description for which
\* the describer answered null is not submitted in this run and keeps empty
\* tags.
C28_ImageTaggedOnlyWithDescription ==
    /\ C28_ImageSentWithText
    /\ C28_UndescribedNotTagged

\* The image whose description is missing has been tagged by the oracle and
\* the tags are stored.
C28_TaggedWithoutDescription ==
    /\ pc = "done"
    /\ \E i \in 1..Len(samples) :
          /\ DescriptionMissing(i)
          /\ results[i].tags # <<>>
          /\ cache_model.cache[samples[i].cache_record.content_id].tags # <<>>
          /\ cache_model.cache[samples[i].cache_record.content_id]
                 .file_description = None

\* ---------------------------------------------------------------- C29
\* The content ids instance i's run has stored (non-empty) tags for.
UpdatedBy(i) ==
    {samples[i][uncached[i][k]].cache_record.content_id :
        k \in {k \in 1..Len(uncached[i]) :
                  /\ k <= Len(tag_responses[i])
                  /\ tag_responses[i][k] # None
                  /\ tag_responses[i][k][1].tags # <<>>}}

\* Both runs have returned, each after a flush.
BothFlushed ==
    \A i \in Instances : pc[i] = "done" /\ log[i].flushes > 0

\* Claim C29: after two overlapping runs on two instances loaded from the
\* same file have both flushed, the file holds the tag updates of both:
\* every content id either run updated is in the file, with the tags one of
\* the runs that updated it stored.
C29_BothUpdatesPersisted ==
    BothFlushed =>
        \A i \in Instances : \A k \in UpdatedBy(i) :
            /\ k \in DOMAIN Persisted.cache
            /\ \E j \in Instances :
                  /\ k \in UpdatedBy(j)
                  /\ Persisted.cache[k].tags = cache_model[j].cache[k].tags

\* A flush removes no record from the file.
C29_FlushKeepsRecords ==
    [][\A k \in DOMAIN Persisted.cache :
          k \in DOMAIN model_validate_json(disk'.doc).cache]_vars

\* The two runs tagged different files and one of the updates is not in
\* the file.
C29_LostUpdate ==
    /\ BothFlushed
    /\ UpdatedBy(1) \cap UpdatedBy(2) = {}
    /\ \E k \in UpdatedBy(1) \cup UpdatedBy(2) : k \notin DOMAIN Persisted.cache

\* ---------------------------------------------------------------- C30
\* Every key of map m holds a record of that content id, and the keys are
\* the entries of the insertion order, once each.
KeysMatch(m) ==
    /\ \A k \in DOMAIN m.cache : m.cache[k].content_id = k
    /\ Range(m.order) = DOMAIN m.cache
    /\ Len(m.order) = Cardinality(DOMAIN m.cache)

\* Claim C30: for every key k of the cache map the record stored under k
\* has content_id = k, after any sequence of get_or_init_record, get_by_id,
\* update_tags and update_file_description on a map loaded from a
\* consistent file or empty.
C30_KeyIsContentId == KeysMatch(cache_model)

\* C30 witness: a map of three entries, two loaded and one created by a
\* miss, after the created record was stored again by an update.
C30_Witness ==
    /\ log.op \in {"update_tags", "update_file_description"}
    /\ Cardinality(DOMAIN cache_model.cache) = 3
    /\ obj[samples[log.i].cache_record.content_id] = log.i
    /\ cache_model.cache[samples[log.i].cache_record.content_id].ts > 0
    /\ \E k \in DOMAIN cache_model.cache : cache_model.cache[k].ts = 0

\* The same in the tagger: at every point of batch_tag_files, of a save and
\* of a reload from the file.
C30_KeyIsContentIdInBatch ==
    /\ KeysMatch(cache_model)
    /\ disk.kind = "doc" => KeysMatch(model_validate_json(disk.doc))

====
